---- MODULE Spec2Model ----
(***************************************************************************)
(* Model of scripts/trainctl_wrapper.py: the Trainctl facade, its command  *)
(* builders (AWSCommands, ResourceCommands, CheckpointCommands) and the    *)
(* invoker/decoder Trainctl._run.                                          *)
(*                                                                         *)
(* A Python str is a sequence of atoms (Text); the str is the              *)
(* concatenation of its atoms.  Captured output is held character by       *)
(* character, fixed tokens of the program ("--limit", "aws") are one atom. *)
(* A Python value is a record [t, n, s, items]: t is the type tag, n the   *)
(* number of an int/bool/float (floats in tenths), s the Text of a str,    *)
(* items the elements of a list or the members [k, v] of a dict.           *)
(***************************************************************************)
EXTENDS Integers, Sequences, FiniteSets, TLC

\* ------------------------------------------------------------------ bounds
\* the largest exit code a child process returns
MaxExit == 1
\* the number of threads that call the facade at the same time
MaxThreads == 2

\* ----------------------------------------------------------- Python values
PyNone == [t |-> "none", n |-> 0, s |-> <<>>, items |-> <<>>]
\* a required parameter the caller did not pass at all
PyMissing == [t |-> "missing", n |-> 0, s |-> <<>>, items |-> <<>>]
PyStr(x) == [t |-> "str", n |-> 0, s |-> x, items |-> <<>>]
PyInt(k) == [t |-> "int", n |-> k, s |-> <<>>, items |-> <<>>]
PyFloat(tenths) == [t |-> "float", n |-> tenths, s |-> <<>>, items |-> <<>>]
PyBool(b) == [t |-> "bool", n |-> IF b THEN 1 ELSE 0, s |-> <<>>, items |-> <<>>]
PyList(xs) == [t |-> "list", n |-> 0, s |-> <<>>, items |-> xs]
PyDict(ms) == [t |-> "dict", n |-> 0, s |-> <<>>, items |-> ms]
Member(key, val) == [k |-> key, v |-> val]

\* Python truth value testing, as used by `if x:` in the builders
Truthy(v) ==
  CASE v.t = "none" -> FALSE
    [] v.t = "str" -> v.s # <<>>
    [] v.t \in {"int", "float", "bool"} -> v.n # 0
    [] v.t \in {"list", "dict"} -> v.items # <<>>
    [] OTHER -> FALSE

Digit(d) == <<"0", "1", "2", "3", "4", "5", "6", "7", "8", "9">>[d + 1]

RECURSIVE NatText(_)
NatText(k) == IF k < 10 THEN <<Digit(k)>> ELSE NatText(k \div 10) \o <<Digit(k % 10)>>

IntText(k) == IF k < 0 THEN <<"-">> \o NatText(-k) ELSE NatText(k)

\* str(x) for the values the builders convert: int and float
StrOf(v) ==
  CASE v.t = "int" -> PyStr(IntText(v.n))
    [] v.t = "float" -> PyStr(IntText(v.n \div 10) \o <<".">> \o NatText(v.n % 10))
    [] v.t = "bool" -> PyStr(IF v.n = 1 THEN <<"True">> ELSE <<"False">>)
    [] v.t = "none" -> PyStr(<<"None">>)
    [] OTHER -> v

\* ------------------------------------------------------------------- text
RECURSIVE JoinText(_, _)
\* sep.join(texts)
JoinText(texts, sep) ==
  IF texts = <<>> THEN <<>>
  ELSE IF Len(texts) = 1 THEN texts[1]
  ELSE texts[1] \o sep \o JoinText(Tail(texts), sep)

\* sub occurs in text as a contiguous run
Contains(text, sub) ==
  \E i \in 0..(Len(text) - Len(sub)) : SubSeq(text, i + 1, i + Len(sub)) = sub

\* the characters str.strip() removes that occur in the outputs considered
StripWs == {" ", "\n", "\t", "\r", "\f"}

\* IsBlank without the strip()
IsBlankStrict(text) == text = <<>>

\* not result.stdout.strip()
IsBlank(text) == \A i \in 1..Len(text) : text[i] \in StripWs

\* ------------------------------------------------------------- json.loads
\* whitespace json.loads skips
JsonWs == {" ", "\n", "\t", "\r"}
DigitChars == {"0", "1", "2", "3", "4", "5", "6", "7", "8", "9"}
DigitVal(c) == CHOOSE d \in 0..9 : Digit(d) = c

Fail == [ok |-> FALSE, val |-> PyNone, next |-> 0]
Ok(v, i) == [ok |-> TRUE, val |-> v, next |-> i]

RECURSIVE SkipWs(_, _)
SkipWs(s, i) == IF i <= Len(s) /\ s[i] \in JsonWs THEN SkipWs(s, i + 1) ELSE i

RECURSIVE DigitsEnd(_, _)
DigitsEnd(s, i) == IF i <= Len(s) /\ s[i] \in DigitChars THEN DigitsEnd(s, i + 1) ELSE i

RECURSIVE DigitsVal(_, _, _)
DigitsVal(s, i, j) == IF j < i THEN 0 ELSE DigitsVal(s, i, j - 1) * 10 + DigitVal(s[j])

\* the index of the closing quote of a string whose first character is at i, or 0
RECURSIVE StringEnd(_, _)
StringEnd(s, i) ==
  IF i > Len(s) THEN 0
  ELSE IF s[i] = "\"" THEN i
  ELSE IF s[i] \in {"\\", "\n", "\t", "\r"} THEN 0
  ELSE StringEnd(s, i + 1)

HasLiteral(s, i, lit) == i + Len(lit) - 1 <= Len(s) /\ SubSeq(s, i, i + Len(lit) - 1) = lit

\* a dict keeps one member per key: the first position, the last value
SetMember(ms, key, val) ==
  IF \E j \in 1..Len(ms) : ms[j].k = key
  THEN [j \in 1..Len(ms) |-> IF ms[j].k = key THEN Member(key, val) ELSE ms[j]]
  ELSE Append(ms, Member(key, val))

RECURSIVE ParseValue(_, _)
RECURSIVE ParseItems(_, _, _)
RECURSIVE ParseMembers(_, _, _)

\* the value whose first character is at i
ParseValue(s, i) ==
  IF i > Len(s) THEN Fail
  ELSE IF s[i] = "\"" THEN
    LET e == StringEnd(s, i + 1)
    IN IF e = 0 THEN Fail ELSE Ok(PyStr(SubSeq(s, i + 1, e - 1)), e + 1)
  ELSE IF s[i] = "{" THEN
    LET j == SkipWs(s, i + 1)
    IN IF j <= Len(s) /\ s[j] = "}" THEN Ok(PyDict(<<>>), j + 1)
       ELSE ParseMembers(s, j, <<>>)
  ELSE IF s[i] = "[" THEN
    LET j == SkipWs(s, i + 1)
    IN IF j <= Len(s) /\ s[j] = "]" THEN Ok(PyList(<<>>), j + 1)
       ELSE ParseItems(s, j, <<>>)
  ELSE IF HasLiteral(s, i, <<"n", "u", "l", "l">>) THEN Ok(PyNone, i + 4)
  ELSE IF HasLiteral(s, i, <<"t", "r", "u", "e">>) THEN Ok(PyBool(TRUE), i + 4)
  ELSE IF HasLiteral(s, i, <<"f", "a", "l", "s", "e">>) THEN Ok(PyBool(FALSE), i + 5)
  ELSE
    LET neg == s[i] = "-"
        d == IF neg THEN i + 1 ELSE i
        e == IF d <= Len(s) /\ s[d] = "0" THEN d + 1 ELSE DigitsEnd(s, d)
    IN IF e = d THEN Fail
       ELSE Ok(PyInt(IF neg THEN -DigitsVal(s, d, e - 1) ELSE DigitsVal(s, d, e - 1)), e)

\* array elements from i on (i is past the whitespace after "[" or ",")
ParseItems(s, i, acc) ==
  LET r == ParseValue(s, i)
  IN IF ~r.ok THEN Fail
     ELSE LET j == SkipWs(s, r.next)
              acc2 == Append(acc, r.val)
          IN IF j > Len(s) THEN Fail
             ELSE IF s[j] = "]" THEN Ok(PyList(acc2), j + 1)
             ELSE IF s[j] = "," THEN ParseItems(s, SkipWs(s, j + 1), acc2)
             ELSE Fail

\* object members from i on (i is past the whitespace after "{" or ",")
ParseMembers(s, i, acc) ==
  IF i > Len(s) \/ s[i] # "\"" THEN Fail
  ELSE
    LET e == StringEnd(s, i + 1)
    IN IF e = 0 THEN Fail
       ELSE
         LET c == SkipWs(s, e + 1)
         IN IF c > Len(s) \/ s[c] # ":" THEN Fail
            ELSE
              LET r == ParseValue(s, SkipWs(s, c + 1))
              IN IF ~r.ok THEN Fail
                 ELSE
                   LET j == SkipWs(s, r.next)
                       acc2 == SetMember(acc, SubSeq(s, i + 1, e - 1), r.val)
                   IN IF j > Len(s) THEN Fail
                      ELSE IF s[j] = "}" THEN Ok(PyDict(acc2), j + 1)
                      ELSE IF s[j] = "," THEN ParseMembers(s, SkipWs(s, j + 1), acc2)
                      ELSE Fail

\* json.loads(s): ok is FALSE where it raises json.JSONDecodeError
JsonLoads(s) ==
  LET r == ParseValue(s, SkipWs(s, 1))
  IN IF r.ok /\ SkipWs(s, r.next) = Len(s) + 1 THEN r ELSE Fail

\* ----------------------------------------------------------------- facade
Tok(a) == PyStr(<<a>>)

BinaryName == <<"trainctl">>
ReleaseBin == <<"<root>", "/", "target", "/", "release", "/", "trainctl">>
DebugBin == <<"<root>", "/", "target", "/", "debug", "/", "trainctl">>
ExplicitBin == <<"/opt/bin/trainctl">>

\* ResolveBinary with the search path consulted before the explicit path
ResolveBinaryPathFirst(explicit, onPath, releaseExists, debugExists) ==
  IF onPath THEN BinaryName
  ELSE IF explicit # PyNone THEN explicit.s
  ELSE IF releaseExists THEN ReleaseBin
  ELSE IF debugExists THEN DebugBin
  ELSE BinaryName

\* Trainctl.__init__: the binary reference
ResolveBinary(explicit, onPath, releaseExists, debugExists) ==
  IF explicit = PyNone
  THEN IF onPath THEN BinaryName
       ELSE IF releaseExists THEN ReleaseBin
       ELSE IF debugExists THEN DebugBin
       ELSE BinaryName
  ELSE explicit.s

\* Trainctl.__init__: how many times it probes the search path and the file
\* system (shutil.which, Path.exists) before the binary reference is set
ProbeCount(explicit, onPath, releaseExists, debugExists) ==
  IF explicit = PyNone
  THEN IF onPath THEN 1
       ELSE IF releaseExists THEN 2
       ELSE 3
  ELSE 0

\* ----------------------------------------------------------------- results
Return(v) == [kind |-> "return", val |-> v, exc |-> "", msg |-> <<>>]
Raise(e, m) == [kind |-> "raise", val |-> PyNone, exc |-> e, msg |-> m]
NoResult == [kind |-> "none", val |-> PyNone, exc |-> "", msg |-> <<>>]

EmptyDict == PyDict(<<>>)
OutputDict(stdout) == PyDict(<<Member(<<"output">>, PyStr(stdout))>>)
ErrorDict(stderr, rc) ==
  PyDict(<<Member(<<"error">>, PyStr(stderr)), Member(<<"exit_code">>, PyInt(rc))>>)

FormatPair == <<Tok("--output"), Tok("json")>>

\* BuildCmd with the format pair appended whatever the format
BuildCmdAlwaysPair(bin, fmt, a) == <<PyStr(bin)>> \o a \o FormatPair

\* cmd = [self.binary] + args, plus the format pair
BuildCmd(bin, fmt, a) ==
  <<PyStr(bin)>> \o a \o (IF fmt = "json" THEN FormatPair ELSE <<>>)

\* ' '.join(cmd)
CmdLine(cmd) == JoinText([i \in 1..Len(cmd) |-> cmd[i].s], <<" ">>)

Hint == <<"Install with: cargo install --path .">>
NotFoundMessage(bin) == <<"trainctl binary not found: ">> \o bin \o <<"\n">> \o Hint
\* the message of lines 87-90; with check=True subprocess.run raises first
FailedMessage(stderr, cmd) ==
  <<"trainctl failed: ">> \o stderr \o <<"\n", "Command: ">> \o CmdLine(cmd)
\* CalledProcessMessage without the command line
CalledProcessMessageNoCmd(stderr, cmd) == <<"trainctl command failed: ">> \o stderr

CalledProcessMessage(stderr, cmd) ==
  <<"trainctl command failed: ">> \o stderr \o <<"\n", "Command: ">> \o CmdLine(cmd)

\* SubprocessRun with check=True passed whatever the caller's check
SubprocessRunAlwaysCheck(cmd, chk, bstate, o) ==
  IF \E i \in 1..Len(cmd) : cmd[i].t # "str"
  THEN [exc |-> "TypeError", spawned |-> FALSE]
  ELSE IF bstate = "missing" THEN [exc |-> "FileNotFoundError", spawned |-> FALSE]
  ELSE IF bstate = "noexec" THEN [exc |-> "PermissionError", spawned |-> FALSE]
  ELSE IF o.rc # 0 THEN [exc |-> "CalledProcessError", spawned |-> TRUE]
  ELSE [exc |-> "", spawned |-> TRUE]

\* subprocess.run(cmd, capture_output=True, text=True, check=check): the
\* exception it raises ("" for none) and whether a child process ran
SubprocessRun(cmd, chk, bstate, o) ==
  IF \E i \in 1..Len(cmd) : cmd[i].t # "str"
  THEN [exc |-> "TypeError", spawned |-> FALSE]
  ELSE IF bstate = "missing" THEN [exc |-> "FileNotFoundError", spawned |-> FALSE]
  ELSE IF bstate = "noexec" THEN [exc |-> "PermissionError", spawned |-> FALSE]
  ELSE IF chk /\ o.rc # 0 THEN [exc |-> "CalledProcessError", spawned |-> TRUE]
  ELSE [exc |-> "", spawned |-> TRUE]

\* Decode with the parse failure raised instead of wrapped
DecodeStrict(stdout, fmt) ==
  IF IsBlank(stdout) THEN [parsed |-> FALSE, res |-> Return(EmptyDict)]
  ELSE IF fmt = "json"
  THEN LET r == JsonLoads(stdout)
       IN [parsed |-> TRUE,
           res |-> IF r.ok THEN Return(r.val) ELSE Raise("JSONDecodeError", <<>>)]
  ELSE [parsed |-> FALSE, res |-> Return(OutputDict(stdout))]

\* the decoding of a successful outcome
Decode(stdout, fmt) ==
  IF IsBlank(stdout) THEN [parsed |-> FALSE, res |-> Return(EmptyDict)]
  ELSE IF fmt = "json"
  THEN LET r == JsonLoads(stdout)
       IN [parsed |-> TRUE, res |-> IF r.ok THEN Return(r.val) ELSE Return(OutputDict(stdout))]
  ELSE [parsed |-> FALSE, res |-> Return(OutputDict(stdout))]

\* Run with the command run a second time after a non-zero exit
RunRetrying(bin, fmt, a, chk, bstate, o) ==
  LET c == BuildCmd(bin, fmt, a)
      p == SubprocessRun(c, chk, bstate, o)
      base == [cmd |-> c, spawned |-> p.spawned, parsed |-> FALSE, res |-> NoResult,
               attempts |-> IF p.spawned /\ o.rc # 0 THEN 2 ELSE 1,
               procs |-> IF p.spawned THEN (IF o.rc # 0 THEN 2 ELSE 1) ELSE 0, left |-> 0]
  IN CASE p.exc = "FileNotFoundError" ->
            [base EXCEPT !.res = Raise("TrainctlError", NotFoundMessage(bin))]
       [] p.exc = "CalledProcessError" ->
            [base EXCEPT !.res = Raise("TrainctlError", CalledProcessMessage(o.stderr, c))]
       [] p.exc \in {"TypeError", "PermissionError"} ->
            [base EXCEPT !.res = Raise(p.exc, <<>>)]
       [] OTHER ->
            IF o.rc # 0
            THEN IF chk
                 THEN [base EXCEPT !.res = Raise("TrainctlError", FailedMessage(o.stderr, c))]
                 ELSE [base EXCEPT !.res = Return(ErrorDict(o.stderr, o.rc))]
            ELSE LET d == Decode(o.stdout, fmt)
                 IN [base EXCEPT !.parsed = d.parsed, !.res = d.res]

\* Trainctl._run(args, check)
Run(bin, fmt, a, chk, bstate, o) ==
  LET c == BuildCmd(bin, fmt, a)
      p == SubprocessRun(c, chk, bstate, o)
      \* one subprocess.run, which waits for the child: attempts and procs
      \* count the calls of it and the children started, left the children
      \* still running when _run returns or raises
      base == [cmd |-> c, spawned |-> p.spawned, parsed |-> FALSE, res |-> NoResult,
               attempts |-> 1, procs |-> IF p.spawned THEN 1 ELSE 0, left |-> 0]
  IN CASE p.exc = "FileNotFoundError" ->
            [base EXCEPT !.res = Raise("TrainctlError", NotFoundMessage(bin))]
       [] p.exc = "CalledProcessError" ->
            [base EXCEPT !.res = Raise("TrainctlError", CalledProcessMessage(o.stderr, c))]
       [] p.exc \in {"TypeError", "PermissionError"} ->
            [base EXCEPT !.res = Raise(p.exc, <<>>)]
       [] OTHER ->
            IF o.rc # 0
            THEN IF chk
                 THEN [base EXCEPT !.res = Raise("TrainctlError", FailedMessage(o.stderr, c))]
                 ELSE [base EXCEPT !.res = Return(ErrorDict(o.stderr, o.rc))]
            ELSE LET d == Decode(o.stdout, fmt)
                 IN [base EXCEPT !.parsed = d.parsed, !.res = d.res]

\* what _run makes of the command c it built, once subprocess.run has come
\* back: the except clauses and the decoding of lines 85-114
Conclude(bin, fmt, c, chk, bstate, o) ==
  LET p == SubprocessRun(c, chk, bstate, o)
  IN CASE p.exc = "FileNotFoundError" -> Raise("TrainctlError", NotFoundMessage(bin))
       [] p.exc = "CalledProcessError" ->
            Raise("TrainctlError", CalledProcessMessage(o.stderr, c))
       [] p.exc \in {"TypeError", "PermissionError"} -> Raise(p.exc, <<>>)
       [] OTHER ->
            IF o.rc # 0
            THEN IF chk
                 THEN Raise("TrainctlError", FailedMessage(o.stderr, c))
                 ELSE Return(ErrorDict(o.stderr, o.rc))
            ELSE Decode(o.stdout, fmt).res

\* cmd and result kept in one place for all calls of the facade
FrameShared(t) == 1

\* cmd and result are local variables of _run: the activation of _run in
\* thread t has its own
FrameOf(t) == t

\* ---------------------------------------------------------------- builders
Flag(cond, toks) == IF Truthy(cond) THEN toks ELSE <<>>

CreateInstanceArgs(instance_type, spot, spot_max_price, ami_id, project_name) ==
  <<Tok("aws"), Tok("create"), Tok("--instance-type"), instance_type>>
    \o Flag(spot, <<Tok("--spot")>>)
    \o Flag(spot_max_price, <<Tok("--spot-max-price"), StrOf(spot_max_price)>>)
    \o Flag(ami_id, <<Tok("--ami-id"), ami_id>>)
    \o Flag(project_name, <<Tok("--project-name"), project_name>>)

TrainArgs(instance_id, script, data_s3, sync_code, project_name, pass) ==
  <<Tok("aws"), Tok("train"), instance_id, script>>
    \o Flag(data_s3, <<Tok("--data-s3"), data_s3>>)
    \o Flag(sync_code, <<Tok("--sync-code")>>)
    \o Flag(project_name, <<Tok("--project-name"), project_name>>)
    \o Flag(pass, <<Tok("--")>> \o pass.items)

\* StopArgs with the flag appended unconditionally
StopArgsAlwaysForce(instance_id, force) ==
  <<Tok("aws"), Tok("stop"), instance_id, Tok("--force")>>

StopArgs(instance_id, force) ==
  <<Tok("aws"), Tok("stop"), instance_id>> \o Flag(force, <<Tok("--force")>>)

TerminateArgs(instance_id, force) ==
  <<Tok("aws"), Tok("terminate"), instance_id>> \o Flag(force, <<Tok("--force")>>)

MonitorArgs(instance_id, follow) ==
  <<Tok("aws"), Tok("monitor"), instance_id>> \o Flag(follow, <<Tok("--follow")>>)

ProcessesArgs(instance_id, watch) ==
  <<Tok("aws"), Tok("processes"), instance_id>> \o Flag(watch, <<Tok("--watch")>>)

ResourcesListArgs(platform, detailed, limit) ==
  <<Tok("resources"), Tok("list")>>
    \o Flag(platform, <<Tok("--platform"), platform>>)
    \o Flag(detailed, <<Tok("--detailed")>>)
    \o Flag(limit, <<Tok("--limit"), StrOf(limit)>>)

SummaryArgs == <<Tok("resources"), Tok("summary")>>

StopAllArgs(force) ==
  <<Tok("resources"), Tok("stop-all")>> \o Flag(force, <<Tok("--force")>>)

CheckpointListArgs(directory) == <<Tok("checkpoint"), Tok("list"), directory>>

CheckpointInfoArgs(path) == <<Tok("checkpoint"), Tok("info"), path>>

VersionArgs == <<Tok("--version")>>

\* the required parameters of each operation (those without a default)
RequiredOf(o) ==
  CASE o = "aws.create_instance" -> {"instance_type"}
    [] o = "aws.train" -> {"instance_id", "script"}
    [] o \in {"aws.stop", "aws.terminate", "aws.monitor", "aws.processes"} -> {"instance_id"}
    [] o = "checkpoint.list" -> {"directory"}
    [] o = "checkpoint.info" -> {"path"}
    [] OTHER -> {}

\* ------------------------------------------------------------ input domains
InstanceId == PyStr(<<"i-1">>)
ReqVals == {PyMissing, PyNone, PyStr(<<>>), InstanceId, PyStr(<<"--force">>)}
InstanceTypes == {PyMissing, PyNone, PyStr(<<>>), PyStr(<<"g4dn.xlarge">>)}
TrainIds == {PyNone, PyStr(<<>>), InstanceId}
Scripts == {PyStr(<<>>), PyStr(<<"train.py">>)}
Bools == {PyBool(FALSE), PyBool(TRUE)}
Prices == {PyNone, PyFloat(0), PyFloat(5)}
OptStrs == {PyNone, PyStr(<<>>), PyStr(<<"aws">>)}
DataS3s == {PyNone, PyStr(<<"s3://b">>)}
Projects == {PyNone, PyStr(<<"p">>)}
Limits == {PyNone, PyInt(0), PyInt(5), PyInt(10)}
PassArgs == {PyNone, PyList(<<>>), PyList(<<Tok("--epochs"), Tok("10")>>),
             PyList(<<Tok("--data-s3"), Tok("s3://b")>>)}

JsonDoc == <<"{", "\"", "a", "\"", ":", " ", "1", "}">>
Stdouts == { <<>>, <<" ", "\n">>, <<"\f">>,
             <<"h", "e", "l", "l", "o">>,
             JsonDoc,
             JsonDoc \o <<"\n">>,
             <<"[", "1", "]">>, <<"5">>, <<"n", "u", "l", "l">>,
             <<"{", "\"", "a", "\"", ":">>,
             <<" ", "h", "i", "\n">> }
Stderrs == { <<>>, <<"quota exceeded">> }
\* what a child process can leave behind: any exit code, any stderr; the
\* outputs of a failed process are the empty one and a document
Outcomes ==
  { o \in [rc : 0..MaxExit, stdout : Stdouts, stderr : Stderrs] :
      o.rc # 0 => o.stdout \in {<<>>, JsonDoc} }
NoOutcome == [rc |-> 0, stdout |-> <<>>, stderr |-> <<>>]
BinStates == {"ok", "missing", "noexec"}

\* ------------------------------------------------------------------- state
\* binary, output_format: the fields of the facade
\* binState: what the file system holds at the binary reference
\* pc: "idle" between calls, "done" when a call has returned or raised
\* op, params, check: the call; args: what the builder handed to _run
\* cmd: the command line _run built; spawns: child processes it started
\* outcome: what the child left; parsed: json.loads was called; result
\* ctor: the explicit path given to the constructor and what the search path
\* and the two build directories held then; probes: probes made so far
\* attempts: subprocess.run calls of the call; running: children of the call
\* that have not exited
\* th: for each thread, its call of _run when calls overlap: where it is
\* (pc), the arguments and check it was called with, the command its child
\* was started with (ran), what the file system held then (bstate), what its
\* child left (outcome), what the call gave back (res), and whether another
\* call was under way when it began (overlapped)
\* locals: the local variables cmd and result of the activations of _run
VARIABLES binary, output_format, binState, pc,
          op, params, args, check, cmd, spawns, outcome, parsed, result,
          ctor, probes, attempts, running, th, locals

facade == <<binary, output_format>>
frame == <<op, params, args, check, cmd, spawns, outcome, parsed, result,
           attempts, running>>
vars == <<binary, output_format, binState, pc,
          op, params, args, check, cmd, spawns, outcome, parsed, result,
          ctor, probes, attempts, running, th, locals>>

Threads == 1..MaxThreads
NoThread ==
  [pc |-> "out", args |-> <<>>, check |-> TRUE, ran |-> <<>>, bstate |-> "",
   outcome |-> NoOutcome, res |-> NoResult, overlapped |-> FALSE]
NoLocals == [cmd |-> <<>>, result |-> NoOutcome]

\* the constructor's argument and the environment it runs in
CtorCases ==
  [explicit : {PyNone, PyStr(ExplicitBin)}, onPath : BOOLEAN,
   release : BOOLEAN, debug : BOOLEAN]

Init ==
  /\ ctor \in CtorCases
  /\ binary = ResolveBinary(ctor.explicit, ctor.onPath, ctor.release, ctor.debug)
  /\ probes = ProbeCount(ctor.explicit, ctor.onPath, ctor.release, ctor.debug)
  /\ output_format \in {"json", "text"}
  /\ binState \in BinStates
  /\ pc = "idle"
  /\ op = ""
  /\ params = <<>>
  /\ args = <<>>
  /\ check = TRUE
  /\ cmd = <<>>
  /\ spawns = 0
  /\ outcome = NoOutcome
  /\ parsed = FALSE
  /\ result = NoResult
  /\ attempts = 0
  /\ running = 0
  /\ th = [t \in Threads |-> NoThread]
  /\ locals = [t \in Threads |-> NoLocals]

\* one call of operation o with the parameters ps, whose builder yields a
\* and which runs _run(a, check=chk)
Call(o, ps, a, chk) ==
  /\ pc = "idle"
  /\ pc' = "done"
  /\ op' = o
  /\ params' = ps
  /\ check' = chk
  /\ UNCHANGED <<binary, output_format, binState, ctor, probes, th, locals>>
  /\ IF \E q \in DOMAIN ps : ps[q] = PyMissing
     THEN \* the call itself fails: missing required positional argument
          /\ args' = <<>>
          /\ cmd' = <<>>
          /\ spawns' = 0
          /\ outcome' = NoOutcome
          /\ parsed' = FALSE
          /\ result' = Raise("TypeError", <<>>)
          /\ attempts' = 0
          /\ running' = 0
     ELSE \E o2 \in Outcomes :
            LET r == Run(binary, output_format, a, chk, binState, o2)
            IN /\ args' = a
               /\ cmd' = r.cmd
               /\ spawns' = r.procs
               /\ attempts' = r.attempts
               /\ running' = r.left
               /\ outcome' = IF r.spawned THEN o2 ELSE NoOutcome
               /\ parsed' = r.parsed
               /\ result' = r.res

CreateInstance ==
  \E instance_type \in InstanceTypes, spot \in Bools, spot_max_price \in Prices,
     ami_id \in OptStrs, project_name \in Projects :
    Call("aws.create_instance",
         [instance_type |-> instance_type, spot |-> spot, spot_max_price |-> spot_max_price,
          ami_id |-> ami_id, project_name |-> project_name],
         CreateInstanceArgs(instance_type, spot, spot_max_price, ami_id, project_name), TRUE)

Train ==
  \E instance_id \in TrainIds, script \in Scripts, data_s3 \in DataS3s,
     sync_code \in Bools, project_name \in Projects, pass \in PassArgs :
    Call("aws.train",
         [instance_id |-> instance_id, script |-> script, data_s3 |-> data_s3,
          sync_code |-> sync_code, project_name |-> project_name, args |-> pass],
         TrainArgs(instance_id, script, data_s3, sync_code, project_name, pass), TRUE)

Stop ==
  \E instance_id \in ReqVals, force \in Bools :
    Call("aws.stop", [instance_id |-> instance_id, force |-> force],
         StopArgs(instance_id, force), TRUE)

Terminate ==
  \E instance_id \in ReqVals, force \in Bools :
    Call("aws.terminate", [instance_id |-> instance_id, force |-> force],
         TerminateArgs(instance_id, force), TRUE)

Monitor ==
  \E instance_id \in ReqVals, follow \in Bools :
    Call("aws.monitor", [instance_id |-> instance_id, follow |-> follow],
         MonitorArgs(instance_id, follow), TRUE)

Processes ==
  \E instance_id \in ReqVals, watch \in Bools :
    Call("aws.processes", [instance_id |-> instance_id, watch |-> watch],
         ProcessesArgs(instance_id, watch), TRUE)

ResourcesList ==
  \E platform \in OptStrs, detailed \in Bools, limit \in Limits :
    Call("resources.list", [platform |-> platform, detailed |-> detailed, limit |-> limit],
         ResourcesListArgs(platform, detailed, limit), TRUE)

Summary == Call("resources.summary", <<>>, SummaryArgs, TRUE)

StopAll ==
  \E force \in Bools :
    Call("resources.stop_all", [force |-> force], StopAllArgs(force), TRUE)

CheckpointList ==
  \E directory \in ReqVals :
    Call("checkpoint.list", [directory |-> directory], CheckpointListArgs(directory), TRUE)

CheckpointInfo ==
  \E path \in ReqVals :
    Call("checkpoint.info", [path |-> path], CheckpointInfoArgs(path), TRUE)

Version == Call("version", <<>>, VersionArgs, FALSE)

\* the caller has the result or the exception; the call's request, outcome
\* and result are dropped (nothing of a call is kept by the facade)
Finish ==
  /\ pc = "done"
  /\ pc' = "idle"
  /\ op' = ""
  /\ params' = <<>>
  /\ args' = <<>>
  /\ check' = TRUE
  /\ cmd' = <<>>
  /\ spawns' = 0
  /\ outcome' = NoOutcome
  /\ parsed' = FALSE
  /\ result' = NoResult
  /\ attempts' = 0
  /\ running' = 0
  /\ UNCHANGED <<binary, output_format, binState, ctor, probes, th, locals>>

\* the environment: the file the binary reference names appears, disappears
\* or changes its mode between calls
EnvChange ==
  /\ pc = "idle"
  /\ \E b \in BinStates \ {binState} : binState' = b
  /\ UNCHANGED <<binary, output_format, pc, ctor, probes, th, locals>>
  /\ UNCHANGED frame

Next ==
  \/ CreateInstance
  \/ Train
  \/ Stop
  \/ Terminate
  \/ Monitor
  \/ Processes
  \/ ResourcesList
  \/ Summary
  \/ StopAll
  \/ CheckpointList
  \/ CheckpointInfo
  \/ Version
  \/ Finish
  \/ EnvChange

Spec == Init /\ [][Next]_vars

\* -------------------------------------------------------- overlapping calls
\* Calls of one facade made from several threads.  A call of _run is four
\* steps: it builds cmd (lines 73-75), subprocess.run starts the child or
\* fails to (line 78), the child exits and its outcome becomes result, and
\* _run returns or raises (lines 85-114).  Steps of different threads
\* interleave freely, and the file system changes at any moment.

\* the calls the threads make: version() runs _run unchecked, stop() checked
OverlapCalls ==
  { [args |-> VersionArgs, check |-> FALSE],
    [args |-> StopArgs(InstanceId, PyBool(TRUE)), check |-> TRUE] }
OverlapOutcomes ==
  { [rc |-> 0, stdout |-> JsonDoc, stderr |-> <<>>],
    [rc |-> 0, stdout |-> <<"h", "e", "l", "l", "o">>, stderr |-> <<>>],
    [rc |-> MaxExit, stdout |-> <<>>, stderr |-> <<"quota exceeded">>] }
InFlight(t) == th[t].pc \in {"built", "running", "exited"}
SameFacade == UNCHANGED <<binary, output_format, pc, ctor, probes, frame>>

InitOverlap ==
  /\ Init
  /\ ctor = [explicit |-> PyNone, onPath |-> TRUE, release |-> FALSE, debug |-> FALSE]

\* lines 73-75
Enter(t) ==
  /\ th[t].pc = "out"
  /\ \E c \in OverlapCalls :
       /\ th' = [th EXCEPT ![t] =
                  [NoThread EXCEPT !.pc = "built", !.args = c.args, !.check = c.check,
                                   !.overlapped = \E u \in Threads \ {t} : InFlight(u)]]
       /\ locals' = [locals EXCEPT ![FrameOf(t)] =
                      [NoLocals EXCEPT !.cmd = BuildCmd(binary, output_format, c.args)]]
  /\ UNCHANGED binState
  /\ SameFacade

\* line 78, up to the start of the child
Start(t) ==
  /\ th[t].pc = "built"
  /\ LET c == locals[FrameOf(t)].cmd
         p == SubprocessRun(c, FALSE, binState, NoOutcome)
     IN th' = [th EXCEPT ![t] =
                 IF p.spawned
                 THEN [@ EXCEPT !.pc = "running", !.ran = c, !.bstate = binState]
                 ELSE [@ EXCEPT !.pc = "returned", !.bstate = binState,
                                !.res = Conclude(binary, output_format, c, th[t].check,
                                                 binState, NoOutcome)]]
  /\ UNCHANGED <<locals, binState>>
  /\ SameFacade

\* line 78, the child exits and subprocess.run hands back its outcome
ChildExit(t) ==
  /\ th[t].pc = "running"
  /\ \E o \in OverlapOutcomes :
       /\ th' = [th EXCEPT ![t] = [@ EXCEPT !.pc = "exited", !.outcome = o]]
       /\ locals' = [locals EXCEPT ![FrameOf(t)] = [@ EXCEPT !.result = o]]
  /\ UNCHANGED binState
  /\ SameFacade

\* lines 85-114
ReturnOrRaise(t) ==
  /\ th[t].pc = "exited"
  /\ LET l == locals[FrameOf(t)]
     IN th' = [th EXCEPT ![t] =
                 [@ EXCEPT !.pc = "returned",
                           !.res = Conclude(binary, output_format, l.cmd, th[t].check,
                                            th[t].bstate, l.result)]]
  /\ UNCHANGED <<locals, binState>>
  /\ SameFacade

\* the caller takes the result; the thread is free for its next call
Leave(t) ==
  /\ th[t].pc = "returned"
  /\ th' = [th EXCEPT ![t] = NoThread]
  /\ UNCHANGED <<locals, binState>>
  /\ SameFacade

\* the file the binary reference names appears, disappears or changes its
\* mode while calls are under way
EnvChangeOverlap ==
  /\ \E b \in BinStates \ {binState} : binState' = b
  /\ UNCHANGED <<th, locals>>
  /\ SameFacade

NextOverlap ==
  \/ \E t \in Threads : Enter(t)
  \/ \E t \in Threads : Start(t)
  \/ \E t \in Threads : ChildExit(t)
  \/ \E t \in Threads : ReturnOrRaise(t)
  \/ \E t \in Threads : Leave(t)
  \/ EnvChangeOverlap

SpecOverlap == InitOverlap /\ [][NextOverlap]_vars

\* ================================================================= claims
Done == pc = "done"
\* the call got as far as executing the binary: a command of strings
ReachedExec == Done /\ cmd # <<>> /\ \A i \in 1..Len(cmd) : cmd[i].t = "str"
Exited == Done /\ spawns = 1
Succeeded == Exited /\ outcome.rc = 0
\* every required parameter of the call is a non-empty string
ValidCall == \A q \in RequiredOf(op) : params[q].t = "str" /\ params[q].s # <<>>
RaisedError(e) == result.kind = "raise" /\ result.exc = e
WhitespaceOnly(text) == \A i \in 1..Len(text) : text[i] \in {" ", "\n", "\t", "\r", "\f"}
QuotaExceeded == <<"quota exceeded">>
Hello == <<"h", "e", "l", "l", "o">>

\* the command line as the claim spells it: the binary, the builder's
\* arguments in order, the format pair when the format is json
ClaimedLine ==
  JoinText(<<binary>> \o [i \in 1..Len(args) |-> args[i].s]
             \o (IF output_format = "json" THEN <<<<"--output">>, <<"json">>>> ELSE <<>>),
           <<" ">>)

\* C1: a call with check=True whose child exits non-zero raises TrainctlError,
\* and the message holds the captured stderr and the full command line.
C1_CheckedNonZeroRaises ==
  (Exited /\ check /\ outcome.rc # 0) =>
    /\ RaisedError("TrainctlError")
    /\ Contains(result.msg, outcome.stderr)
    /\ Contains(result.msg, ClaimedLine)

C1_Witness ==
  /\ Exited /\ check /\ outcome.rc = 1 /\ outcome.stderr = QuotaExceeded
  /\ op = "aws.stop" /\ output_format = "json"
  /\ RaisedError("TrainctlError")
  /\ Contains(result.msg, QuotaExceeded)

\* C2: whenever the binary is missing or not executable at invocation, the
\* call (here: one with valid parameters) raises TrainctlError "trainctl
\* binary not found" with the attempted path and the remediation hint, and
\* nothing else escapes.
C2_UnusableBinaryIsNotFound ==
  (ReachedExec /\ ValidCall /\ binState \in {"missing", "noexec"}) =>
    /\ RaisedError("TrainctlError")
    /\ Contains(result.msg, <<"trainctl binary not found: ">>)
    /\ Contains(result.msg, binary)
    /\ Contains(result.msg, Hint)

\* C3: a call that violates a required parameter (absent, None or empty)
\* fails before any child process is spawned.
InvalidRequired(v) == v \in {PyMissing, PyNone, PyStr(<<>>)}
C3_NoSpawnForInvalidInput ==
  (Done /\ \E q \in RequiredOf(op) : InvalidRequired(params[q])) =>
    /\ spawns = 0
    /\ result.kind = "raise"

\* the flag token of each optional parameter
FlagOf(q) ==
  CASE q = "spot" -> "--spot"
    [] q = "spot_max_price" -> "--spot-max-price"
    [] q = "ami_id" -> "--ami-id"
    [] q = "project_name" -> "--project-name"
    [] q = "data_s3" -> "--data-s3"
    [] q = "sync_code" -> "--sync-code"
    [] q = "args" -> "--"
    [] q = "force" -> "--force"
    [] q = "follow" -> "--follow"
    [] q = "watch" -> "--watch"
    [] q = "platform" -> "--platform"
    [] q = "detailed" -> "--detailed"
    [] q = "limit" -> "--limit"
    [] OTHER -> ""
Unset(v) == v = PyNone \/ v = PyBool(FALSE)
Built == Done /\ args # <<>>
UnsetOptionals == {q \in DOMAIN params \ RequiredOf(op) : Unset(params[q])}
Occurrences(tok) == Cardinality({i \in 1..Len(args) : args[i] = tok})
\* how often the caller supplied tok as a value: as a parameter, or as an
\* element of the pass-through list
Supplied(tok) ==
  Cardinality({q \in DOMAIN params : params[q] = tok})
    + Cardinality({qi \in (DOMAIN params) \X (1..Len(args)) :
                     /\ params[qi[1]].t = "list"
                     /\ qi[2] <= Len(params[qi[1]].items)
                     /\ params[qi[1]].items[qi[2]] = tok})

\* C4 as stated: the argument list (here: of a call with valid required
\* parameters) never contains the flag token of an optional parameter left
\* unset, whatever the other parameters are.
C4_UnsetFlagAbsent ==
  (Built /\ ValidCall) => \A q \in UnsetOptionals : Occurrences(Tok(FlagOf(q))) = 0

\* C4 as amended: the builder puts no flag token of an unset optional
\* parameter into the list by itself; the token occurs exactly as often as
\* the caller supplied it as a value (positional, flag value, pass-through).
C4_UnsetFlagNotAdded ==
  Built => \A q \in UnsetOptionals : Occurrences(Tok(FlagOf(q))) = Supplied(Tok(FlagOf(q)))

C4_Witness ==
  /\ Built /\ op = "aws.train"
  /\ params.data_s3 = PyNone /\ params.sync_code = PyBool(FALSE)
  /\ params.args = PyList(<<Tok("--data-s3"), Tok("s3://b")>>)
  /\ Occurrences(Tok("--data-s3")) = 1
  /\ Occurrences(Tok("--sync-code")) = 0

\* an optional parameter counts as set when it is not None, not False and
\* not empty
IsSet(v) == v \notin {PyNone, PyBool(FALSE), PyStr(<<>>), PyList(<<>>)}
Opt(v, toks) == IF IsSet(v) THEN toks ELSE <<>>
\* subcommand path, positionals, set flags in the builder's order, then the
\* pass-through arguments behind "--"
ClaimedArgs ==
  CASE op = "aws.create_instance" ->
         <<Tok("aws"), Tok("create"), Tok("--instance-type"), params.instance_type>>
           \o Opt(params.spot, <<Tok("--spot")>>)
           \o Opt(params.spot_max_price, <<Tok("--spot-max-price"), StrOf(params.spot_max_price)>>)
           \o Opt(params.ami_id, <<Tok("--ami-id"), params.ami_id>>)
           \o Opt(params.project_name, <<Tok("--project-name"), params.project_name>>)
    [] op = "aws.train" ->
         <<Tok("aws"), Tok("train"), params.instance_id, params.script>>
           \o Opt(params.data_s3, <<Tok("--data-s3"), params.data_s3>>)
           \o Opt(params.sync_code, <<Tok("--sync-code")>>)
           \o Opt(params.project_name, <<Tok("--project-name"), params.project_name>>)
           \o Opt(params.args, <<Tok("--")>> \o params.args.items)
    [] op = "aws.stop" ->
         <<Tok("aws"), Tok("stop"), params.instance_id>> \o Opt(params.force, <<Tok("--force")>>)
    [] op = "aws.terminate" ->
         <<Tok("aws"), Tok("terminate"), params.instance_id>> \o Opt(params.force, <<Tok("--force")>>)
    [] op = "aws.monitor" ->
         <<Tok("aws"), Tok("monitor"), params.instance_id>> \o Opt(params.follow, <<Tok("--follow")>>)
    [] op = "aws.processes" ->
         <<Tok("aws"), Tok("processes"), params.instance_id>> \o Opt(params.watch, <<Tok("--watch")>>)
    [] op = "resources.list" ->
         <<Tok("resources"), Tok("list")>>
           \o Opt(params.platform, <<Tok("--platform"), params.platform>>)
           \o Opt(params.detailed, <<Tok("--detailed")>>)
           \o Opt(params.limit, <<Tok("--limit"), StrOf(params.limit)>>)
    [] op = "resources.summary" -> <<Tok("resources"), Tok("summary")>>
    [] op = "resources.stop_all" ->
         <<Tok("resources"), Tok("stop-all")>> \o Opt(params.force, <<Tok("--force")>>)
    [] op = "checkpoint.list" -> <<Tok("checkpoint"), Tok("list"), params.directory>>
    [] op = "checkpoint.info" -> <<Tok("checkpoint"), Tok("info"), params.path>>
    [] OTHER -> <<Tok("--version")>>

\* C5: the spawned command is the binary, the subcommand path, the
\* positionals, the set flags in the builder's order, "--" and the
\* pass-through arguments when given, and the pair --output json exactly
\* when the format is json (here: for calls with valid required parameters).
C5_SpawnedCommandShape ==
  (Exited /\ ValidCall) =>
    cmd = <<PyStr(binary)>> \o ClaimedArgs
            \o (IF output_format = "json" THEN <<Tok("--output"), Tok("json")>> ELSE <<>>)

\* C6: every value returned by a call whose child exits with 0 is a mapping:
\* the parsed document, {"output": stdout} or {} (here: for calls with valid
\* required parameters).
C6_SuccessReturnsMapping ==
  (Succeeded /\ ValidCall /\ result.kind = "return") =>
    /\ result.val.t = "dict"
    /\ \/ result.val = PyDict(<<>>)
       \/ result.val = PyDict(<<Member(<<"output">>, PyStr(outcome.stdout))>>)
       \/ output_format = "json" /\ JsonLoads(outcome.stdout).ok
            /\ result.val = JsonLoads(outcome.stdout).val

\* C7: with format json and exit code 0, non-blank stdout that does not
\* parse is returned as {"output": stdout}, unmodified, and no successful
\* outcome makes the call raise.
C7_UnparseableFallsBack ==
  /\ (Succeeded /\ output_format = "json" /\ ~WhitespaceOnly(outcome.stdout)
        /\ ~JsonLoads(outcome.stdout).ok) =>
       result = Return(PyDict(<<Member(<<"output">>, PyStr(outcome.stdout))>>))
  /\ Succeeded => result.kind = "return"

C7_Witness ==
  /\ Succeeded /\ output_format = "json" /\ outcome.stdout = Hello
  /\ parsed
  /\ result = Return(PyDict(<<Member(<<"output">>, PyStr(Hello))>>))

\* C8: for either format, empty or whitespace-only stdout of a successful
\* outcome decodes to {} and not to an error or {"output": ...}.
C8_BlankStdoutIsEmptyResult ==
  (Succeeded /\ WhitespaceOnly(outcome.stdout)) => result = Return(PyDict(<<>>))

C8_Witness ==
  /\ Succeeded /\ outcome.stdout = <<" ", "\n">>
  /\ output_format = "text"
  /\ result = Return(PyDict(<<>>))

PairAppended == cmd # <<>> /\ cmd = <<PyStr(binary)>> \o args \o <<Tok("--output"), Tok("json")>>
RawTextBehaviour ==
  output_format # "json" =>
    /\ cmd # <<>> => cmd = <<PyStr(binary)>> \o args
    /\ (Succeeded /\ ~WhitespaceOnly(outcome.stdout)) =>
         /\ result = Return(PyDict(<<Member(<<"output">>, PyStr(outcome.stdout))>>))
         /\ ~parsed

\* C9 as stated: with a raw-text format no pair is appended and non-blank
\* stdout is wrapped without parsing; parsing is attempted exactly in the
\* calls in which the pair was appended (here: calls that ran a child
\* process on valid required parameters).
C9_ParseExactlyWhenPair ==
  (Exited /\ ValidCall) => (RawTextBehaviour /\ (parsed <=> PairAppended))

\* C9 as amended: ... parsing is attempted only in calls in which the pair
\* was appended, and of those exactly in the ones whose child exits with
\* code 0 and leaves non-blank stdout.
C9_ParseOnlyWhenPair ==
  Done => /\ RawTextBehaviour
          /\ parsed <=> (PairAppended /\ Succeeded /\ ~WhitespaceOnly(outcome.stdout))

C9_Witness ==
  /\ Succeeded /\ output_format = "text" /\ outcome.stdout = JsonDoc
  /\ cmd = <<PyStr(binary)>> \o args
  /\ ~parsed
  /\ result = Return(PyDict(<<Member(<<"output">>, PyStr(JsonDoc))>>))

\* C10: a call with check=False whose child exits non-zero does not raise;
\* it returns {"error": stderr, "exit_code": code} and stdout is not decoded.
C10_UncheckedNonZeroReturns ==
  (Exited /\ ~check /\ outcome.rc # 0) =>
    /\ result = Return(PyDict(<<Member(<<"error">>, PyStr(outcome.stderr)),
                                Member(<<"exit_code">>, PyInt(outcome.rc))>>))
    /\ ~parsed

C10_Witness ==
  /\ Exited /\ op = "version" /\ ~check
  /\ outcome.rc = 1 /\ outcome.stderr = QuotaExceeded /\ outcome.stdout = JsonDoc
  /\ result.kind = "return"
  /\ result.val.items[2] = Member(<<"exit_code">>, PyInt(1))

\* the binary reference as the claim derives it from the constructor's
\* argument and the environment at construction
ClaimedBinary ==
  IF ctor.explicit # PyNone THEN ctor.explicit.s
  ELSE IF ctor.onPath THEN <<"trainctl">>
  ELSE IF ctor.release THEN <<"<root>", "/", "target", "/", "release", "/", "trainctl">>
  ELSE IF ctor.debug THEN <<"<root>", "/", "target", "/", "debug", "/", "trainctl">>
  ELSE <<"trainctl">>
\* the probes up to and including the first hit; none for an explicit path
ClaimedProbes ==
  IF ctor.explicit # PyNone THEN 0
  ELSE IF ctor.onPath THEN 1
  ELSE IF ctor.release THEN 2
  ELSE 3

\* C11: the binary reference is the explicit path verbatim, else the first
\* hit of search path, release artifact, debug artifact, bare name; every
\* call uses it; no call and no change of the environment changes the binary
\* reference or the output format, and nothing is probed again.
C11_BinaryFixedAtConstruction ==
  /\ [](/\ binary = ClaimedBinary
        /\ probes = ClaimedProbes
        /\ cmd # <<>> => cmd[1] = PyStr(ClaimedBinary))
  /\ [][/\ binary' = binary
        /\ output_format' = output_format
        /\ probes' = probes]_vars

C11_Witness ==
  /\ pc = "done" /\ spawns = 1
  /\ ctor.explicit = PyStr(<<"/opt/bin/trainctl">>) /\ ctor.onPath
  /\ binary = <<"/opt/bin/trainctl">>
  /\ cmd[1] = PyStr(<<"/opt/bin/trainctl">>)
  /\ probes = 0

\* the call got as far as _run
ReachedInvoker == Done /\ cmd # <<>>
Spawnable == binState = "ok" /\ \A i \in 1..Len(cmd) : cmd[i].t = "str"

\* C12 as stated: every call that reaches the invoker (here: one with valid
\* required parameters) spawns exactly one external process and ends only
\* after it has exited, whatever the outcome, binary not found included.
C12_ExactlyOneProcess ==
  (ReachedInvoker /\ ValidCall) => (spawns = 1 /\ attempts = 1 /\ running = 0)

\* C12 as amended: every call that reaches the invoker makes exactly one
\* spawn attempt; it spawns exactly one process when the command consists of
\* strings and the binary can be executed, and none otherwise; it ends only
\* after that process has exited; nothing is retried or left running.
C12_OneAttemptPerCall ==
  ReachedInvoker =>
    /\ attempts = 1
    /\ running = 0
    /\ spawns = (IF Spawnable THEN 1 ELSE 0)

C12_Witness ==
  /\ ReachedInvoker /\ check /\ outcome.rc = 1
  /\ RaisedError("TrainctlError")
  /\ spawns = 1 /\ attempts = 1 /\ running = 0

\* position of the first "--" token of the command, 0 when there is none
Separator ==
  IF \E i \in 1..Len(cmd) : cmd[i] = Tok("--")
  THEN CHOOSE i \in 1..Len(cmd) :
         /\ cmd[i] = Tok("--")
         /\ \A j \in 1..(i - 1) : cmd[j] # Tok("--")
  ELSE 0
AfterSeparator == SubSeq(cmd, Separator + 1, Len(cmd))
PassThroughGiven ==
  /\ ReachedInvoker /\ op = "aws.train" /\ ValidCall
  /\ params.args.t = "list" /\ params.args.items # <<>>

\* C14: in aws.train with a non-empty list of pass-through arguments, the
\* tokens that follow the "--" separator of the command are exactly the
\* caller's pass-through arguments in their order, for either output format:
\* no flag of the client and no format-selection pair comes after it.
C14_PassThroughExact ==
  PassThroughGiven =>
    /\ Separator > 0
    /\ AfterSeparator = params.args.items

\* what one call on its own gives for the arguments, the file system and the
\* child's outcome of thread t
Alone(t) ==
  Run(binary, output_format, th[t].args, th[t].check, th[t].bstate, th[t].outcome)
OwnCommand(t) == BuildCmd(binary, output_format, th[t].args)

\* C13: when calls on one facade overlap, under every interleaving the
\* command each call builds and spawns is the one of its own arguments and
\* the facade's binary and format, the outcome it reads is the one of its own
\* child, its result or error is the one a call on its own gives for that
\* outcome, and a step of one call changes nothing of any other call.
C13_OverlappingCallsIndependent ==
  /\ [](\A t \in Threads :
          /\ InFlight(t) => locals[FrameOf(t)].cmd = OwnCommand(t)
          /\ th[t].pc \in {"running", "exited"} => th[t].ran = OwnCommand(t)
          /\ th[t].pc = "exited" => locals[FrameOf(t)].result = th[t].outcome
          /\ th[t].pc = "returned" =>
               /\ th[t].res = Alone(t).res
               /\ th[t].ran = (IF Alone(t).spawned THEN OwnCommand(t) ELSE <<>>))
  /\ [][\A t \in Threads :
          th'[t] # th[t] =>
            \A u \in Threads \ {t} :
              /\ th'[u] = th[u]
              /\ locals'[FrameOf(u)] = locals[FrameOf(u)]]_vars

\* two calls that overlapped have both returned, each with the result of its
\* own command and its own child's outcome
C13_Witness ==
  /\ th[1].pc = "returned" /\ th[2].pc = "returned"
  /\ th[2].overlapped
  /\ th[1].args # th[2].args
  /\ th[1].outcome.rc = 0 /\ th[1].res.kind = "return"
  /\ th[2].outcome.rc # 0 /\ th[2].res.kind = "raise"
  /\ th[1].ran # <<>> /\ th[2].ran # <<>>

====
